---- MODULE Spec2Model ----
(***************************************************************************)
(* Falcon inference platform: the resilience layer.                        *)
(*   app/utils/circuit_breaker.py   CircuitBreaker                         *)
(*   app/utils/retry.py             retry_with_backoff                     *)
(*   app/services/*.py, app/api/routes.py, app/main.py, app/models,        *)
(*   app/utils/hashing.py                                                  *)
(* Spec      : concurrent callers of one CircuitBreaker, wall clock `now`. *)
(* SpecLive  : the same with the dependency recovered, under fairness.     *)
(* SpecRetry : one retry_with_backoff run over every parameter choice.     *)
(* SpecDB    : DatabaseService, log calls and flushes interleaved.         *)
(* SpecDBLive: log calls after the store has recovered, under fairness.    *)
(* SpecKV    : the four RedisService adapters over their breaker.          *)
(* SpecKey, SpecHash, SpecValidate : cache key, hash_input, validation.    *)
(* SpecInfer : POST /infer, requests overlapping at predict.               *)
(* SpecShutdown : lifespan from serving to the end of the shutdown.        *)
(***************************************************************************)
EXTENDS Integers, Sequences, FiniteSets, Bags, TLC

\* ------------------------------------------------------------------ bounds
NumCallers   == 2   \* calls of the same breaker that may be in flight together
MaxTime      == 4   \* last clock value explored
MaxThreshold == 2   \* failure_threshold ranges over 1..MaxThreshold
MaxTimeout   == 2   \* timeout_seconds ranges over 1..MaxTimeout
MaxProbes    == 2   \* half_open_attempts ranges over 1..MaxProbes

MaxAttempts  == 4   \* max_attempts ranges over 1..MaxAttempts (or is left out)

MaxRecords   == 5   \* log_inference_request calls explored
MaxLen       == 5   \* the largest maxlen of the deque: room for every record explored
NumFlushers  == 2   \* flush_log_buffer calls that may overlap

MaxText      == 3   \* request texts have 1..MaxText characters

MaxRequests  == 3   \* inference requests explored

MaxKeys      == 2   \* dictionaries given to hash_input have 0..MaxKeys keys

\* ------------------------------------------------- circuit breaker: values
CLOSED    == "CLOSED"
OPEN      == "OPEN"
HALF_OPEN == "HALF_OPEN"
CircuitBreakerState == {CLOSED, OPEN, HALF_OPEN}

\* Python's None for Optional[float] last_failure_time
None == -1

\* truthiness of `self.last_failure_time` in `a and b`: None and 0.0 are falsy
Truthy(t) == t # None /\ t # 0

VARIABLES
    enabled,   \* settings.circuit_breaker_enabled
    cfg,       \* failure_threshold, timeout_seconds, half_open_attempts
    cb,        \* state, failure_count, success_count, last_failure_time
    now,       \* time.time()
    calls,     \* the bag of CircuitBreaker.call invocations suspended in func
    solo,      \* history: one call in flight and no other call made since it began
    last,      \* history: how the most recently finished call ended
    streak,    \* history: failures recorded since the last recorded success or closing
    probeRun   \* history: successful probes since the breaker last went half-open

cbvars == <<enabled, cfg, cb, now, calls, solo, last, streak, probeRun>>

\* state after CircuitBreaker.__init__
NewBreaker ==
    [state |-> CLOSED, failure_count |-> 0, success_count |-> 0,
     last_failure_time |-> None]

\* variant of _update_state: leaves OPEN without waiting for timeout_seconds
update_state_eager(c, b, t) ==
    IF b.state = OPEN
    THEN [b EXCEPT !.state = HALF_OPEN, !.success_count = 0]
    ELSE IF b.state = HALF_OPEN
    THEN IF b.success_count >= c.half_open_attempts
         THEN [b EXCEPT !.state = CLOSED, !.failure_count = 0]
         ELSE b
    ELSE b

\* variant of _update_state: forgets `self.success_count = 0`
update_state_noreset(c, b, t) ==
    IF b.state = OPEN
    THEN IF Truthy(b.last_failure_time)
            /\ t - b.last_failure_time >= c.timeout_seconds
         THEN [b EXCEPT !.state = HALF_OPEN]
         ELSE b
    ELSE IF b.state = HALF_OPEN
    THEN IF b.success_count >= c.half_open_attempts
         THEN [b EXCEPT !.state = CLOSED, !.failure_count = 0]
         ELSE b
    ELSE b

\* CircuitBreaker._update_state
update_state(c, b, t) ==
    IF b.state = OPEN
    THEN IF Truthy(b.last_failure_time)
            /\ t - b.last_failure_time >= c.timeout_seconds
         THEN [b EXCEPT !.state = HALF_OPEN, !.success_count = 0]
         ELSE b
    ELSE IF b.state = HALF_OPEN
    THEN IF b.success_count >= c.half_open_attempts
         THEN [b EXCEPT !.state = CLOSED, !.failure_count = 0]
         ELSE b
    ELSE b

\* variant of _on_success: forgets `self.failure_count = 0` while CLOSED
on_success_keep(b) ==
    IF b.state = HALF_OPEN
    THEN [b EXCEPT !.success_count = @ + 1]
    ELSE b

\* variant of _on_success: a success while HALF_OPEN is not counted
on_success_uncounted(b) ==
    IF b.state = CLOSED
    THEN [b EXCEPT !.failure_count = 0]
    ELSE b

\* CircuitBreaker._on_success
on_success(b) ==
    IF b.state = HALF_OPEN
    THEN [b EXCEPT !.success_count = @ + 1]
    ELSE IF b.state = CLOSED
    THEN [b EXCEPT !.failure_count = 0]
    ELSE b

\* variant of _on_failure: clears success_count when a probe fails
on_failure_reset(c, b, t) ==
    LET b1 == [b EXCEPT !.failure_count = @ + 1, !.last_failure_time = t]
    IN  IF b1.state = HALF_OPEN
        THEN [b1 EXCEPT !.state = OPEN, !.success_count = 0]
        ELSE IF b1.failure_count >= c.failure_threshold
        THEN [b1 EXCEPT !.state = OPEN]
        ELSE b1

\* variant of _on_failure: opens only above the threshold
on_failure_late(c, b, t) ==
    LET b1 == [b EXCEPT !.failure_count = @ + 1, !.last_failure_time = t]
    IN  IF b1.state = HALF_OPEN
        THEN [b1 EXCEPT !.state = OPEN]
        ELSE IF b1.failure_count > c.failure_threshold
        THEN [b1 EXCEPT !.state = OPEN]
        ELSE b1

\* CircuitBreaker._on_failure
on_failure(c, b, t) ==
    LET b1 == [b EXCEPT !.failure_count = @ + 1, !.last_failure_time = t]
    IN  IF b1.state = HALF_OPEN
        THEN [b1 EXCEPT !.state = OPEN]
        ELSE IF b1.failure_count >= c.failure_threshold
        THEN [b1 EXCEPT !.state = OPEN]
        ELSE b1

\* variant of call: does the bookkeeping although circuit breaking is disabled
after_func_always(en, c, b, t, ok) ==
    IF ok THEN on_success(b) ELSE on_failure(c, b, t)

\* CircuitBreaker.call, after `await func()`: the breaker's bookkeeping.
\* Disabled: `return await func()` touches nothing.
after_func(en, c, b, t, ok) ==
    IF ~en THEN b
    ELSE IF ok THEN on_success(b)
    ELSE on_failure(c, b, t)

\* CircuitBreaker.call, short-circuit branch: what the caller gets
short_circuit(fb) ==
    IF fb THEN [result |-> "fallback", fbInvoked |-> TRUE]
    ELSE [result |-> "open_error", fbInvoked |-> FALSE]

\* variant of call: the except branch answers with the fallback when there is one
func_result_fallback(fb, ok) ==
    IF ok THEN [result |-> "value", fbInvoked |-> FALSE]
    ELSE IF fb THEN [result |-> "fallback", fbInvoked |-> TRUE]
    ELSE [result |-> "func_error", fbInvoked |-> FALSE]

\* CircuitBreaker.call, after `await func()`: what the caller gets
\* (`return result`, or `raise e` from the except branch)
func_result(fb, ok) ==
    IF ok THEN [result |-> "value", fbInvoked |-> FALSE]
    ELSE [result |-> "func_error", fbInvoked |-> FALSE]

\* a CircuitBreaker.call suspended in `await func()`
InFlight(fb, admitted, moved) ==
    [fb |-> fb, admitted |-> admitted, moved |-> moved]

\* no call has finished yet
NoCall ==
    [op |-> "none", fb |-> FALSE, admitted |-> "none", moved |-> FALSE,
     solo |-> FALSE, outcome |-> "none", result |-> "none",
     invoked |-> FALSE, fbInvoked |-> FALSE]

NoneRunning == calls = EmptyBag

InitCB ==
    /\ enabled \in BOOLEAN
    /\ cfg \in [failure_threshold : 1..MaxThreshold,
                timeout_seconds : 1..MaxTimeout,
                half_open_attempts : 1..MaxProbes]
    /\ cb = NewBreaker
    /\ now = 1
    /\ calls = EmptyBag
    /\ solo = FALSE
    /\ last = NoCall
    /\ streak = 0
    /\ probeRun = 0

\* CircuitBreaker.call with circuit breaking disabled, up to `await func()`
CallDisabled(fb) ==
    /\ ~enabled
    /\ BagCardinality(calls) < NumCallers
    /\ calls' = calls (+) SetToBag({InFlight(fb, "bypass", FALSE)})
    /\ solo' = NoneRunning
    /\ UNCHANGED <<enabled, cfg, cb, now, last, streak, probeRun>>

\* CircuitBreaker.call, breaker open after _update_state: fallback or error
CallShortCircuit(fb) ==
    /\ enabled
    /\ BagCardinality(calls) < NumCallers
    /\ LET b1 == update_state(cfg, cb, now)
           r  == short_circuit(fb)
       IN  /\ b1.state = OPEN
           /\ cb' = b1
           /\ last' = [op |-> "short", fb |-> fb, admitted |-> OPEN,
                       moved |-> FALSE, solo |-> NoneRunning,
                       outcome |-> "none", result |-> r.result,
                       invoked |-> FALSE, fbInvoked |-> r.fbInvoked]
    /\ solo' = FALSE
    /\ UNCHANGED <<enabled, cfg, now, calls, streak, probeRun>>

\* CircuitBreaker.call, breaker not open after _update_state, up to `await func()`
CallAdmit(fb) ==
    /\ enabled
    /\ BagCardinality(calls) < NumCallers
    /\ LET b1 == update_state(cfg, cb, now)
       IN  /\ b1.state # OPEN
           /\ cb' = b1
           /\ calls' = calls (+) SetToBag({InFlight(fb, b1.state,
                           cb.state = OPEN /\ b1.state = HALF_OPEN)})
           /\ streak' = IF cb.state = HALF_OPEN /\ b1.state = CLOSED
                        THEN 0 ELSE streak
           /\ probeRun' = IF cb.state # b1.state THEN 0 ELSE probeRun
    /\ solo' = NoneRunning
    /\ UNCHANGED <<enabled, cfg, now, last>>

\* `await func()` of call c is over: _on_success or _on_failure, then return
\* or raise
Return(c, ok) ==
    /\ BagIn(c, calls)
    /\ LET r == func_result(c.fb, ok)
       IN  last' = [op |-> "ret", fb |-> c.fb, admitted |-> c.admitted,
                    moved |-> c.moved, solo |-> solo,
                    outcome |-> IF ok THEN "ok" ELSE "fail",
                    result |-> r.result, invoked |-> TRUE,
                    fbInvoked |-> r.fbInvoked]
    /\ cb' = after_func(enabled, cfg, cb, now, ok)
    /\ calls' = calls (-) SetToBag({c})
    /\ solo' = FALSE
    /\ streak' = IF ~enabled THEN streak
                 ELSE IF ok THEN 0 ELSE streak + 1
    /\ probeRun' = IF ~enabled THEN probeRun
                   ELSE IF ~ok THEN 0
                   ELSE IF c.admitted = HALF_OPEN /\ solo
                   THEN probeRun + 1 ELSE probeRun
    /\ UNCHANGED <<enabled, cfg, now>>

ReturnSuccess(c) == Return(c, TRUE)
ReturnFailure(c) == Return(c, FALSE)

\* the wall clock advances
Tick ==
    /\ now < MaxTime
    /\ now' = now + 1
    /\ UNCHANGED <<enabled, cfg, cb, calls, solo, last, streak, probeRun>>

\* ---------------------------------------------------- retry_with_backoff
\* settings defaults (app/core/config.py)
retry_max_attempts     == 3
retry_base_delay_ms    == 100
retry_max_delay_ms     == 5000
retry_exponential_base == 2

\* an argument left out (None) or given as 0: `x or settings.x` takes the default
Unset == 0

\* values a caller passes for each keyword argument
MaxAttemptsArgs     == {Unset} \cup 1..MaxAttempts
BaseDelayArgs       == {Unset, 40}
MaxDelayArgs        == {Unset, 100}
ExponentialBaseArgs == {Unset, 3}

\* what one invocation of func does: returns, raises an exception listed in
\* `exceptions`, or raises one that is not
Outcomes == {"ok", "retryable", "fatal"}

VARIABLES
    retry_enabled,  \* settings.retry_enabled
    args,           \* max_attempts, base_delay_ms, max_delay_ms, exponential_base as passed
    rpc,            \* "start", "attempt" (func in flight), "sleep", "done"
    attempt,        \* the loop variable of `for attempt in range(max_attempts)`
    last_exception, \* None, or the attempt (1-based) whose exception is kept
    outcomes,       \* history: what each invocation of func did, in order
    delays,         \* history: the asyncio.sleep calls made, in ms, in order
    rresult         \* how retry_with_backoff ended

rvars == <<retry_enabled, args, rpc, attempt, last_exception, outcomes,
           delays, rresult>>

RECURSIVE Pow(_, _)
\* exponential_base ** attempt
Pow(b, n) == IF n = 0 THEN 1 ELSE b * Pow(b, n - 1)

Min(a, b) == IF a <= b THEN a ELSE b

\* `x or default`
Or(x, default) == IF x # Unset THEN x ELSE default

\* retry_with_backoff, lines 39-42: the values the loop works with
effective(a) ==
    [max_attempts     |-> Or(a.max_attempts, retry_max_attempts),
     base_delay_ms    |-> Or(a.base_delay_ms, retry_base_delay_ms),
     max_delay_ms     |-> Or(a.max_delay_ms, retry_max_delay_ms),
     exponential_base |-> Or(a.exponential_base, retry_exponential_base)]

\* variant of the delay computation: no cap at max_delay_ms
delay_ms_uncapped(e, i) ==
    e.base_delay_ms * Pow(e.exponential_base, i)

\* retry_with_backoff, lines 67-70
delay_ms(e, i) ==
    Min(e.base_delay_ms * Pow(e.exponential_base, i), e.max_delay_ms)

\* variant of `except exceptions`: catches every exception
caught_any(o) == o # "ok"

\* `except exceptions as e`: is the raised exception one of `exceptions`
caught(o) == o = "retryable"

\* variant of the entry check: retries although retry is disabled
retry_active_always(en) == TRUE

\* `if not settings.retry_enabled: return await func()`
retry_active(en) == en

\* what retry_with_backoff does once func is over on loop index i
after_attempt(en, e, i, o) ==
    IF ~retry_active(en) THEN (IF o = "ok" THEN "return" ELSE "raise")
    ELSE IF o = "ok" THEN "return"
    ELSE IF ~caught(o) THEN "raise"
    ELSE IF i < e.max_attempts - 1 THEN "sleep"
    ELSE "exhausted"

NoResult == [kind |-> "none", attempt |-> 0, error |-> "none"]

InitRetry ==
    /\ retry_enabled \in BOOLEAN
    /\ args \in [max_attempts : MaxAttemptsArgs,
                 base_delay_ms : BaseDelayArgs,
                 max_delay_ms : MaxDelayArgs,
                 exponential_base : ExponentialBaseArgs]
    /\ rpc = "start"
    /\ attempt = 0
    /\ last_exception = None
    /\ outcomes = <<>>
    /\ delays = <<>>
    /\ rresult = NoResult

\* entry: disabled, `await func()`; enabled, the first pass of the loop
RetryStart ==
    /\ rpc = "start"
    /\ rpc' = "attempt"
    /\ UNCHANGED <<retry_enabled, args, attempt, last_exception, outcomes,
                   delays, rresult>>

\* `await func()` is over with outcome o
FuncOver(o) ==
    /\ rpc = "attempt"
    /\ outcomes' = Append(outcomes, o)
    /\ LET e  == effective(args)
           n  == Len(outcomes) + 1
           nx == after_attempt(retry_enabled, e, attempt, o)
       IN  CASE nx = "return" ->
                  /\ rpc' = "done"
                  /\ rresult' = [kind |-> "return", attempt |-> n,
                                 error |-> "none"]
                  /\ UNCHANGED <<last_exception, delays>>
             [] nx = "raise" ->
                  /\ rpc' = "done"
                  /\ rresult' = [kind |-> "raise", attempt |-> n, error |-> o]
                  /\ UNCHANGED <<last_exception, delays>>
             [] nx = "sleep" ->
                  /\ rpc' = "sleep"
                  /\ last_exception' = n
                  /\ delays' = Append(delays, delay_ms(e, attempt))
                  /\ UNCHANGED rresult
             [] nx = "exhausted" ->
                  /\ rpc' = "done"
                  /\ last_exception' = n
                  /\ rresult' = [kind |-> "raise", attempt |-> last_exception',
                                 error |-> outcomes'[last_exception']]
                  /\ UNCHANGED delays
    /\ UNCHANGED <<retry_enabled, args, attempt>>

\* asyncio.sleep is over: next pass of the loop
WakeUp ==
    /\ rpc = "sleep"
    /\ attempt' = attempt + 1
    /\ rpc' = "attempt"
    /\ UNCHANGED <<retry_enabled, args, last_exception, outcomes, delays,
                   rresult>>

\* retry_with_backoff is not running
RetryIdle ==
    /\ retry_enabled = TRUE
    /\ args = [max_attempts |-> Unset, base_delay_ms |-> Unset,
               max_delay_ms |-> Unset, exponential_base |-> Unset]
    /\ rpc = "start"
    /\ attempt = 0
    /\ last_exception = None
    /\ outcomes = <<>>
    /\ delays = <<>>
    /\ rresult = NoResult

\* no CircuitBreaker.call is made
BreakerIdle ==
    /\ enabled = TRUE
    /\ cfg = [failure_threshold |-> 1, timeout_seconds |-> 1,
              half_open_attempts |-> 1]
    /\ cb = NewBreaker
    /\ now = 1
    /\ calls = EmptyBag
    /\ solo = FALSE
    /\ last = NoCall
    /\ streak = 0
    /\ probeRun = 0

\* ------------------------------------------------------- DatabaseService
VARIABLES
    session_factory,    \* TRUE once connect() has set self.session_factory
    store_up,           \* environment: the log store accepts writes
    maxlen,             \* self.log_buffer.maxlen
    log_buffer,         \* self.log_buffer, oldest first; records are request ids
    buffer_enabled,     \* self.buffer_enabled
    dropped_logs_total, \* the dropped_logs_total counter
    table,              \* rows of inference_logs, in commit order
    next_request,       \* the id the next log_inference_request call carries
    flushes,            \* the bag of flush_log_buffer calls suspended in a write
    flush_quiet,        \* history: what the buffer held when the one flush in progress
                        \* began, <<>> once an enqueue or another flush has run beside it
    log_return,         \* history: how the latest log_inference_request call ended
    flush_return,       \* history: how the latest finished flush_log_buffer call ended
    enqueued,           \* history: records _fallback has put into the buffer
    evicted,            \* history: records _fallback pushed out of a full buffer and counted
    outage              \* history: every log call so far found the store down, no flush was called

dbvars == <<session_factory, store_up, maxlen, log_buffer, buffer_enabled,
            dropped_logs_total, table, next_request, flushes, flush_quiet,
            log_return, flush_return, enqueued, evicted, outage>>

Range(seq) == {seq[i] : i \in 1..Len(seq)}

\* variant of deque.append: a deque built without maxlen
deque_append_unbounded(buf, x, m) == Append(buf, x)

\* collections.deque(maxlen=m).append(x): a full deque discards its oldest item
deque_append(buf, x, m) ==
    LET s == Append(buf, x)
    IN  IF Len(s) > m THEN Tail(s) ELSE s

RECURSIVE extend(_, _, _)
\* `for log_data in failed_logs: self.log_buffer.append(log_data)`
extend(buf, items, m) ==
    IF items = <<>> THEN buf
    ELSE extend(deque_append(buf, Head(items), m), Tail(items), m)

\* variant of _fallback: the drop is counted only once the deque is over capacity
fallback_drops_late(buf, m) == IF Len(buf) > m THEN 1 ELSE 0

\* _fallback: `if len(self.log_buffer) >= self.log_buffer.maxlen: dropped_logs_total.inc()`
fallback_drops(buf, m) == IF Len(buf) >= m THEN 1 ELSE 0

\* the argument `retry_with_backoff(_log, ...)` of circuit_breaker.call is the
\* coroutine object the call expression returns, not a callable
db_func == "coroutine_object"

\* `await func(*args, **kwargs)` in CircuitBreaker.call: calling a coroutine
\* object raises TypeError before anything runs; a callable runs to its outcome
call_func(f, outcome) ==
    IF f = "coroutine_object" THEN "TypeError" ELSE outcome

\* variant of log_inference_request: no `except Exception` around the call
log_result_uncaught(outcome) ==
    IF outcome = "fallback" THEN [kind |-> "return", value |-> FALSE]
    ELSE IF outcome = "ok" THEN [kind |-> "return", value |-> TRUE]
    ELSE [kind |-> "raise", value |-> FALSE]

\* log_inference_request: `return result`, or `return False` from the
\* `except Exception` branch
log_result(outcome) ==
    IF outcome = "fallback" THEN [kind |-> "return", value |-> FALSE]
    ELSE IF outcome = "ok" THEN [kind |-> "return", value |-> TRUE]
    ELSE [kind |-> "return", value |-> FALSE]

\* maxlen values explored: a one-slot buffer, the two-slot buffer of the
\* eviction example, and a buffer no run can fill
Capacities == {1, 2, MaxLen}

NoLog == [kind |-> "none", value |-> FALSE]

NoFlush == [ret |-> None, initial |-> 0, quiet |-> FALSE]

InitDB ==
    /\ session_factory \in BOOLEAN
    /\ store_up \in BOOLEAN
    /\ maxlen \in Capacities
    /\ log_buffer = <<>>
    /\ buffer_enabled = FALSE
    /\ dropped_logs_total = 0
    /\ table = <<>>
    /\ next_request = 1
    /\ flushes = EmptyBag
    /\ flush_quiet = <<>>
    /\ log_return = NoLog
    /\ flush_return = NoFlush
    /\ enqueued = {}
    /\ evicted = {}
    /\ outage = TRUE

\* log_inference_request, start to return.  Nothing in it suspends: the
\* breaker's lock is free, _fallback awaits nothing and calling func raises
\* at once.
LogRequest ==
    /\ next_request <= MaxRecords
    /\ LET id  == next_request
           b1  == IF enabled THEN update_state(cfg, cb, now) ELSE cb
           sc  == enabled /\ b1.state = OPEN
           out == IF sc THEN "fallback"
                  ELSE call_func(db_func, IF store_up /\ session_factory
                                          THEN "ok" ELSE "error")
           r   == log_result(out)
       IN  /\ cb' = IF sc THEN b1
                    ELSE after_func(enabled, cfg, b1, now, out = "ok")
           /\ IF sc
              THEN /\ dropped_logs_total' =
                          dropped_logs_total + fallback_drops(log_buffer, maxlen)
                   /\ evicted' = IF Len(log_buffer) >= maxlen
                                 THEN evicted \cup {Head(log_buffer)}
                                 ELSE evicted
                   /\ enqueued' = enqueued \cup {id}
                   /\ log_buffer' = deque_append(log_buffer, id, maxlen)
                   /\ buffer_enabled' = TRUE
                   /\ flush_quiet' = <<>>
              ELSE UNCHANGED <<dropped_logs_total, evicted, enqueued,
                               log_buffer, buffer_enabled, flush_quiet>>
           /\ table' = IF out = "ok" THEN Append(table, id) ELSE table
           /\ log_return' = r
           /\ outage' = (outage /\ ~store_up)
    /\ next_request' = next_request + 1
    /\ UNCHANGED <<session_factory, store_up, maxlen, flushes, flush_return>>

\* a flush_log_buffer call suspended in `await session.flush()` / commit
Flushing(cur, flushed_count, failed_logs) ==
    [cur |-> cur, flushed_count |-> flushed_count, failed_logs |-> failed_logs]

\* variant of the tail of flush_log_buffer: failed records put back newest first
flush_restore_reversed(buf, failed_logs, m) ==
    IF failed_logs = <<>> THEN buf
    ELSE extend(buf, [i \in 1..Len(failed_logs) |->
                          failed_logs[Len(failed_logs) + 1 - i]], m)

\* flush_log_buffer, `for log_data in failed_logs: self.log_buffer.append(log_data)`
flush_restore(buf, failed_logs, m) == extend(buf, failed_logs, m)

\* flush_log_buffer, after the loop has emptied the deque: failed records
\* back, flag, return value
FlushFinish(flushed_count, failed_logs, start) ==
    LET buf == flush_restore(<<>>, failed_logs, maxlen)
    IN  /\ log_buffer' = buf
        /\ buffer_enabled' = IF buf = <<>> THEN FALSE ELSE buffer_enabled
        /\ flush_return' = [ret |-> flushed_count, initial |-> Len(start),
                            quiet |-> start # <<>>]

\* flush_log_buffer called while the buffer is not active or is empty: returns 0
FlushSkip ==
    /\ ~buffer_enabled \/ log_buffer = <<>>
    /\ flush_return' = [ret |-> 0, initial |-> 0, quiet |-> FALSE]
    /\ outage' = FALSE
    /\ UNCHANGED <<session_factory, store_up, maxlen, log_buffer,
                   buffer_enabled, dropped_logs_total, table, next_request,
                   flushes, flush_quiet, log_return, enqueued, evicted>>
    /\ UNCHANGED <<enabled, cfg, cb, now>>

\* flush_log_buffer with no session factory: get_session raises RuntimeError
\* for every record without suspending, so the call runs to its return
FlushUnconnected ==
    /\ buffer_enabled /\ log_buffer # <<>>
    /\ ~session_factory
    /\ FlushFinish(0, log_buffer, log_buffer)
    /\ flush_quiet' = <<>>
    /\ outage' = FALSE
    /\ UNCHANGED <<session_factory, store_up, maxlen, dropped_logs_total,
                   table, next_request, flushes, log_return, enqueued,
                   evicted>>
    /\ UNCHANGED <<enabled, cfg, cb, now>>

\* flush_log_buffer up to the first `await session.flush()`
FlushStart ==
    /\ BagCardinality(flushes) < NumFlushers
    /\ buffer_enabled /\ log_buffer # <<>>
    /\ session_factory
    /\ flushes' = flushes (+) SetToBag({Flushing(Head(log_buffer), 0, <<>>)})
    /\ log_buffer' = Tail(log_buffer)
    /\ flush_quiet' = IF flushes = EmptyBag THEN log_buffer ELSE <<>>
    /\ outage' = FALSE
    /\ UNCHANGED <<session_factory, store_up, maxlen, buffer_enabled,
                   dropped_logs_total, table, next_request, log_return,
                   flush_return, enqueued, evicted>>
    /\ UNCHANGED <<enabled, cfg, cb, now>>

\* the write of flush call f is over (committed if the store is up, an
\* exception otherwise); the loop then takes the next record or ends
FlushWriteDone(f) ==
    /\ BagIn(f, flushes)
    /\ LET ok == store_up
           fc == IF ok THEN f.flushed_count + 1 ELSE f.flushed_count
           fl == IF ok THEN f.failed_logs ELSE Append(f.failed_logs, f.cur)
           rest == flushes (-) SetToBag({f})
       IN  /\ table' = IF ok THEN Append(table, f.cur) ELSE table
           /\ IF log_buffer # <<>>
              THEN /\ flushes' = rest (+) SetToBag({Flushing(Head(log_buffer),
                                                              fc, fl)})
                   /\ log_buffer' = Tail(log_buffer)
                   /\ UNCHANGED <<buffer_enabled, flush_return, flush_quiet>>
              ELSE /\ flushes' = rest
                   /\ FlushFinish(fc, fl, flush_quiet)
                   /\ flush_quiet' = <<>>
    /\ UNCHANGED <<session_factory, store_up, maxlen, dropped_logs_total,
                   next_request, log_return, enqueued, evicted, outage>>
    /\ UNCHANGED <<enabled, cfg, cb, now>>

\* environment: the log store goes down or comes back
StoreFlip ==
    /\ store_up' = ~store_up
    /\ UNCHANGED <<session_factory, maxlen, log_buffer, buffer_enabled,
                   dropped_logs_total, table, next_request, flushes,
                   flush_quiet, log_return, flush_return, enqueued,
                   evicted, outage>>
    /\ UNCHANGED <<enabled, cfg, cb, now>>

\* the wall clock advances while a service runs
TickDB ==
    /\ now < MaxTime
    /\ now' = now + 1
    /\ UNCHANGED <<enabled, cfg, cb>>
    /\ UNCHANGED dbvars

\* DatabaseService.__init__ has run, nothing else
DBIdle ==
    /\ session_factory = FALSE
    /\ store_up = TRUE
    /\ maxlen = 1
    /\ log_buffer = <<>>
    /\ buffer_enabled = FALSE
    /\ dropped_logs_total = 0
    /\ table = <<>>
    /\ next_request = 1
    /\ flushes = EmptyBag
    /\ flush_quiet = <<>>
    /\ log_return = NoLog
    /\ flush_return = NoFlush
    /\ enqueued = {}
    /\ evicted = {}
    /\ outage = TRUE

\* the breaker's history variables, unused outside Spec
NoHistory ==
    /\ calls = EmptyBag
    /\ solo = FALSE
    /\ last = NoCall
    /\ streak = 0
    /\ probeRun = 0

hvars == <<calls, solo, last, streak, probeRun>>

\* ---------------------------------------------------------- RedisService
VARIABLES
    client,                 \* TRUE once connect() has set self.client
    cache_enabled,          \* settings.cache_enabled
    idempotency_enabled,    \* settings.idempotency_enabled
    redis_up,               \* environment: redis answers
    redis_data,             \* what redis holds under the cache key and the idempotency key
    kv_return,              \* history: how the latest adapter call ended
    kv_failed               \* history: the key families whose calls the breaker counted as failures

kvvars == <<client, cache_enabled, idempotency_enabled, redis_up,
            redis_data, kv_return, kv_failed>>

Reads == {"get_cache", "check_idempotency"}

Writes == {"set_cache", "store_idempotency"}

\* the key family an operation works on
kv_key(op) ==
    IF op \in {"get_cache", "set_cache"} THEN "cache" ELSE "idempotency"

\* variant of the adapters' guard: the settings are not consulted
kv_setting_on(op) == TRUE

\* the setting that switches the operation on
kv_setting(op) ==
    IF kv_key(op) = "cache" THEN cache_enabled ELSE idempotency_enabled

\* the argument `retry_with_backoff(_get, ...)` / `retry_with_backoff(_set, ...)`
\* of circuit_breaker.call: a coroutine object again
kv_func == "coroutine_object"

\* what the redis command yields if it runs: the stored value (or None) for
\* a read, True for a write, an error when redis does not answer
redis_outcome(op, up, data) ==
    IF ~up THEN "error"
    ELSE IF op \in Reads THEN data[kv_key(op)] ELSE "True"

\* variant of _fallback: a short-circuited write reports "stored"
kv_default_stored(op) == IF op \in Reads THEN "None" ELSE "True"

\* what _fallback and the `except Exception` branch return
kv_default(op) == IF op \in Reads THEN "None" ELSE "False"

\* variant of the adapters: no `except Exception` around the breaker call
kv_result_uncaught(op, out) ==
    IF out = "fallback" THEN [kind |-> "return", value |-> kv_default(op)]
    ELSE IF out \in {"TypeError", "error"}
         THEN [kind |-> "raise", value |-> out]
         ELSE [kind |-> "return", value |-> out]

\* the adapters' `return result` and `except Exception: return None / False`
kv_result(op, out) ==
    IF out \in {"fallback", "TypeError", "error"}
    THEN [kind |-> "return", value |-> kv_default(op)]
    ELSE [kind |-> "return", value |-> out]

NoKV == [op |-> "none", kind |-> "none", value |-> "None", admitted |-> "none"]

InitKV ==
    /\ client \in BOOLEAN
    /\ cache_enabled \in BOOLEAN
    /\ idempotency_enabled \in BOOLEAN
    /\ redis_up \in BOOLEAN
    /\ redis_data \in [{"cache", "idempotency"} -> {"None", "stored"}]
    /\ kv_return = NoKV
    /\ kv_failed = {}

\* get_cache / set_cache / check_idempotency / store_idempotency, start to
\* return; like log_inference_request, nothing in them suspends
Adapter(op) ==
    IF ~kv_setting(op) \/ ~client
    THEN /\ kv_return' = [op |-> op, kind |-> "return",
                          value |-> kv_default(op), admitted |-> "none"]
         /\ UNCHANGED <<cb, redis_data, kv_failed>>
    ELSE LET b1  == IF enabled THEN update_state(cfg, cb, now) ELSE cb
             sc  == enabled /\ b1.state = OPEN
             out == IF sc THEN "fallback"
                    ELSE call_func(kv_func, redis_outcome(op, redis_up, redis_data))
             r   == kv_result(op, out)
         IN  /\ cb' = IF sc THEN b1
                      ELSE after_func(enabled, cfg, b1, now,
                                      out \notin {"TypeError", "error"})
             /\ redis_data' = IF op \in Writes /\ out = "True"
                              THEN [redis_data EXCEPT ![kv_key(op)] = "stored"]
                              ELSE redis_data
             /\ kv_return' = [op |-> op, kind |-> r.kind, value |-> r.value,
                              admitted |-> IF enabled THEN b1.state ELSE "bypass"]
             /\ kv_failed' = IF enabled /\ ~sc /\ out \in {"TypeError", "error"}
                             THEN kv_failed \cup {kv_key(op)}
                             ELSE kv_failed

get_cache ==
    /\ Adapter("get_cache")
    /\ UNCHANGED <<client, cache_enabled, idempotency_enabled, redis_up>>
    /\ UNCHANGED <<enabled, cfg, now>>

set_cache ==
    /\ Adapter("set_cache")
    /\ UNCHANGED <<client, cache_enabled, idempotency_enabled, redis_up>>
    /\ UNCHANGED <<enabled, cfg, now>>

check_idempotency ==
    /\ Adapter("check_idempotency")
    /\ UNCHANGED <<client, cache_enabled, idempotency_enabled, redis_up>>
    /\ UNCHANGED <<enabled, cfg, now>>

store_idempotency ==
    /\ Adapter("store_idempotency")
    /\ UNCHANGED <<client, cache_enabled, idempotency_enabled, redis_up>>
    /\ UNCHANGED <<enabled, cfg, now>>

\* environment: redis goes down or comes back
RedisFlip ==
    /\ redis_up' = ~redis_up
    /\ UNCHANGED <<client, cache_enabled, idempotency_enabled, redis_data,
                   kv_return, kv_failed>>
    /\ UNCHANGED <<enabled, cfg, cb, now>>

\* RedisService.__init__ has run, nothing else
KVIdle ==
    /\ client = FALSE
    /\ cache_enabled = TRUE
    /\ idempotency_enabled = TRUE
    /\ redis_up = TRUE
    /\ redis_data = [k \in {"cache", "idempotency"} |-> "None"]
    /\ kv_return = NoKV
    /\ kv_failed = {}

\* ------------------------------------------------------------ cache key
VARIABLES
    texts,          \* body.text of two requests
    input_hash      \* the cache key infer has computed for each, <<>> before

keyvars == <<texts, input_hash>>

\* the characters texts are made of: a blank, a lower-case and an upper-case letter
Chars == {" ", "a", "A"}

RECURSIVE lstrip(_)
\* str.lstrip
lstrip(t) ==
    IF t # <<>> /\ Head(t) = " " THEN lstrip(Tail(t)) ELSE t

RECURSIVE rstrip(_)
\* str.rstrip
rstrip(t) ==
    IF t # <<>> /\ t[Len(t)] = " " THEN rstrip(SubSeq(t, 1, Len(t) - 1)) ELSE t

\* str.strip
strip(t) == rstrip(lstrip(t))

\* str.lower
lower(t) == [i \in 1..Len(t) |-> IF t[i] = "A" THEN "a" ELSE t[i]]

\* normalize_text: `text.strip().lower()`
normalize_text(t) == lower(strip(t))

\* the keys dictionaries are made of, in the order sort_keys=True gives them
KeyOrder == <<"a", "b", "text">>

\* data[k] of a dict, held as the sequence of its <<key, value>> items in
\* insertion order
getitem(data, k) == data[CHOOSE i \in DOMAIN data : data[i][1] = k][2]

\* sorted(data.items())
sorted_items(data) ==
    LET keys == SelectSeq(KeyOrder,
                          LAMBDA k : \E i \in DOMAIN data : data[i][1] = k)
    IN  [j \in DOMAIN keys |-> <<keys[j], getitem(data, keys[j])>>]

\* variant of the dump: sort_keys left out, items in insertion order
json_dumps_unsorted(data) == <<"{">> \o data \o <<"}">>

\* json.dumps(data, sort_keys=True)
json_dumps(data) == <<"{">> \o sorted_items(data) \o <<"}">>

\* hash_input: the SHA-256 digest of the dump, distinct for distinct dumps
hash_input(data) == <<"sha256", json_dumps(data)>>

\* infer: `input_hash = hash_input({"text": body.text})`
cache_key(text) == hash_input(<<<<"text", text>>>>)

\* the texts InferenceRequest accepts: 1..MaxText characters, not all blank
ValidTexts ==
    {t \in UNION {[1..n -> Chars] : n \in 1..MaxText} : strip(t) # <<>>}

InitKey ==
    /\ texts \in [1..2 -> ValidTexts]
    /\ input_hash = [i \in 1..2 |-> <<>>]

\* infer computes the cache key of request i
ComputeKey(i) ==
    /\ input_hash[i] = <<>>
    /\ input_hash' = [input_hash EXCEPT ![i] = cache_key(texts[i])]
    /\ UNCHANGED texts

\* no request has arrived
KeyIdle ==
    /\ texts = [i \in 1..2 |-> <<"a">>]
    /\ input_hash = [i \in 1..2 |-> <<>>]

\* ---------------------------------------------------- infer (POST /infer)
VARIABLES
    redis_breaker,  \* redis_service.circuit_breaker, while cb is database_service's
    redis_data0,    \* history: what redis held when the process started
    inflight,       \* the bag of requests suspended in inference_service.predict
    last_out,       \* history: how the latest finished request ended
    prev_out,       \* history: how the request finished before it ended
    answered        \* history: how many requests have returned or raised

ivars == <<redis_breaker, redis_data0, inflight, last_out, prev_out, answered>>

\* what inference_service.predict returns for the text of the requests
prediction == "positive"

\* json.dumps(cache_data)
dumps_cache(p) == IF p = "positive" THEN "cache:positive" ELSE "garbage"

\* json.loads(cached_result)["prediction"]; a value that is not such a
\* dump raises
loads_cache(v) ==
    IF v = "cache:positive"
    THEN [kind |-> "ok", prediction |-> "positive"]
    ELSE [kind |-> "raise", prediction |-> "none"]

NoResponse ==
    [prediction |-> "none", cache_hit |-> FALSE, idempotency_hit |-> FALSE]

\* response.model_dump_json()
model_dump_json(r) ==
    IF r.prediction # "positive" THEN "garbage"
    ELSE IF r.idempotency_hit THEN (IF r.cache_hit THEN "resp:hit:replay"
                                    ELSE "resp:miss:replay")
    ELSE IF r.cache_hit THEN "resp:hit" ELSE "resp:miss"

\* json.loads(cached_response); a value that is not a response dump raises
loads_response(v) ==
    IF v \in {"resp:hit", "resp:miss", "resp:hit:replay", "resp:miss:replay"}
    THEN [kind |-> "ok",
          data |-> [prediction |-> "positive",
                    cache_hit |-> v \in {"resp:hit", "resp:hit:replay"},
                    idempotency_hit |->
                        v \in {"resp:hit:replay", "resp:miss:replay"}]]
    ELSE [kind |-> "raise", data |-> NoResponse]

\* what redis may hold under the cache key and under the idempotency key
\* when the process starts
StoredValues ==
    [cache : {"None", "cache:positive", "garbage"},
     idempotency : {"None", "resp:miss", "garbage"}]

\* one adapter call made by infer: the breaker and the data it leaves and
\* the value it returns (`payload` is what a write would store)
kv_call(op, payload, b, data) ==
    IF ~kv_setting(op) \/ ~client
    THEN [cb |-> b, data |-> data, kind |-> "return", value |-> kv_default(op)]
    ELSE LET b1  == IF enabled THEN update_state(cfg, b, now) ELSE b
             sc  == enabled /\ b1.state = OPEN
             out == IF sc THEN "fallback"
                    ELSE call_func(kv_func, redis_outcome(op, redis_up, data))
             r   == kv_result(op, out)
         IN  [cb |-> IF sc THEN b1
                     ELSE after_func(enabled, cfg, b1, now,
                                     out \notin {"TypeError", "error"}),
              data |-> IF op \in Writes /\ out = "True"
                       THEN [data EXCEPT ![kv_key(op)] = payload]
                       ELSE data,
              kind |-> r.kind, value |-> r.value]

\* a call infer does not make
kv_skip(op, b, data) ==
    [cb |-> b, data |-> data, kind |-> "return", value |-> kv_default(op)]

\* variant of the try block: a write that stored nothing counts as a failure
surfaces_unstored(r) == r.kind = "raise" \/ r.value = "False"

\* a dependency call takes infer to its except branch only by raising
surfaces(r) == r.kind = "raise"

NoError == [type |-> "none", message |-> "none"]

NoDetail ==
    [error |-> "none", error_type |-> "none", worker_id |-> "none",
     request_id |-> "none"]

\* variant of the except branch: the detail names no error kind
error_detail_bare(e) ==
    [error |-> e.message, error_type |-> "none",
     worker_id |-> "worker-1", request_id |-> "request_id"]

\* the detail of the HTTPException the except branch raises
error_detail(e) ==
    [error |-> e.message, error_type |-> e.type,
     worker_id |-> "worker-1", request_id |-> "request_id"]

\* the arguments of a log_inference_request call
Audit(success, cache_hit, idempotency_hit, e) ==
    [success |-> success, cache_hit |-> cache_hit,
     idempotency_hit |-> idempotency_hit,
     error_type |-> e.type, error_message |-> e.message]

NoOut ==
    [kind |-> "none", token |-> FALSE, response |-> NoResponse,
     detail |-> NoDetail, audit |-> Audit(FALSE, FALSE, FALSE, NoError),
     trace |-> <<>>, sequential |-> FALSE]

\* a request suspended in predict: whether it carries X-Idempotency-Key,
\* the dependency calls made so far, and how many requests had finished
\* when it arrived
Suspended(token, trace, seen) ==
    [token |-> token, trace |-> trace, seen |-> seen]

\* variant of the end of a request: it returns without the log call
Ends_unlogged(rb, data, out) ==
    /\ UNCHANGED dbvars
    /\ UNCHANGED cb
    /\ redis_breaker' = rb
    /\ redis_data' = data
    /\ prev_out' = last_out
    /\ answered' = answered + 1
    /\ last_out' = out

\* the request ends: one log_inference_request call, then the response or
\* the HTTPException
Ends(rb, data, out) ==
    /\ LogRequest
    /\ redis_breaker' = rb
    /\ redis_data' = data
    /\ prev_out' = last_out
    /\ answered' = answered + 1
    /\ last_out' = IF log_return'.kind = "raise"
                   THEN [out EXCEPT !.kind = "unhandled"]
                   ELSE out

\* the except branch of infer: failure record, HTTP 500
Fails(token, rb, data, trace, idempotency_hit, e, seen) ==
    Ends(rb, data,
         [kind |-> "error", token |-> token, response |-> NoResponse,
          detail |-> error_detail(e),
          audit |-> Audit(FALSE, FALSE, idempotency_hit, e),
          trace |-> Append(trace, "log"),
          sequential |-> seen = next_request])

\* variant of the tail of infer: the audit record is written before the
\* idempotency record
tail_trace_log_first(trace, stores) ==
    IF stores THEN trace \o <<"log", "store_idempotency">>
    ELSE Append(trace, "log")

\* the tail of infer: store_idempotency if a key was given, then the log call
tail_trace(trace, stores) ==
    IF stores THEN trace \o <<"store_idempotency", "log">>
    ELSE Append(trace, "log")

\* infer from "Build response" to `return response`
Finishes(token, rb, data, trace, cache_hit, seen) ==
    LET response == [prediction |-> prediction, cache_hit |-> cache_hit,
                     idempotency_hit |-> FALSE]
        stores   == token /\ idempotency_enabled
        r4       == IF stores
                    THEN kv_call("store_idempotency",
                                 model_dump_json(response), rb, data)
                    ELSE kv_skip("store_idempotency", rb, data)
    IN  IF surfaces(r4)
        THEN Fails(token, r4.cb, r4.data, Append(trace, "store_idempotency"),
                   FALSE, [type |-> r4.value, message |-> r4.value], seen)
        ELSE Ends(r4.cb, r4.data,
                  [kind |-> "response", token |-> token,
                   response |-> response, detail |-> NoDetail,
                   audit |-> Audit(TRUE, cache_hit, FALSE, NoError),
                   trace |-> tail_trace(trace, stores),
                   sequential |-> seen = next_request])

\* the idempotent replay: the stored response, marked, and its log record
Replays(token, rb, data, trace, stored) ==
    LET parsed == loads_response(stored)
    IN  IF parsed.kind = "raise"
        THEN Fails(token, rb, data, trace, TRUE,
                   [type |-> "JSONDecodeError", message |-> "bad json"],
                   next_request)
        ELSE Ends(rb, data,
                  [kind |-> "response", token |-> token,
                   response |-> [parsed.data EXCEPT !.idempotency_hit = TRUE],
                   detail |-> NoDetail,
                   audit |-> Audit(TRUE, FALSE, TRUE, NoError),
                   trace |-> Append(trace, "log"),
                   sequential |-> TRUE])

\* infer from its start to the first suspension (predict) or, on an
\* idempotency or cache hit, to its end
InferStart(token) ==
    /\ (next_request - 1) + BagCardinality(inflight) < MaxRequests
    /\ BagCardinality(inflight) < NumCallers
    /\ LET checks == token /\ idempotency_enabled
           r1 == IF checks
                 THEN kv_call("check_idempotency", "None", redis_breaker,
                              redis_data)
                 ELSE kv_skip("check_idempotency", redis_breaker, redis_data)
           t1 == IF checks THEN <<"check_idempotency">> ELSE <<>>
           r2 == IF cache_enabled
                 THEN kv_call("get_cache", "None", r1.cb, r1.data)
                 ELSE kv_skip("get_cache", r1.cb, r1.data)
           t2 == IF cache_enabled THEN Append(t1, "get_cache") ELSE t1
       IN  IF surfaces(r1)
           THEN /\ Fails(token, r1.cb, r1.data, t1, FALSE,
                         [type |-> r1.value, message |-> r1.value],
                         next_request)
                /\ UNCHANGED inflight
           ELSE IF r1.value # "None"
           THEN /\ Replays(token, r1.cb, r1.data, t1, r1.value)
                /\ UNCHANGED inflight
           ELSE IF surfaces(r2)
           THEN /\ Fails(token, r2.cb, r2.data, t2, FALSE,
                         [type |-> r2.value, message |-> r2.value],
                         next_request)
                /\ UNCHANGED inflight
           ELSE IF r2.value # "None"
           THEN /\ IF loads_cache(r2.value).kind = "raise"
                   THEN Fails(token, r2.cb, r2.data, t2, FALSE,
                              [type |-> "JSONDecodeError",
                               message |-> "bad json"], next_request)
                   ELSE Finishes(token, r2.cb, r2.data, t2, TRUE,
                                 next_request)
                /\ UNCHANGED inflight
           ELSE /\ inflight' = inflight (+)
                       SetToBag({Suspended(token, Append(t2, "predict"),
                                           next_request)})
                /\ redis_breaker' = r2.cb
                /\ redis_data' = r2.data
                /\ UNCHANGED <<last_out, prev_out, answered, cb>>
                /\ UNCHANGED dbvars
    /\ UNCHANGED <<enabled, cfg, now, redis_data0>>
    /\ UNCHANGED <<client, cache_enabled, idempotency_enabled, redis_up,
                   kv_return, kv_failed>>

\* predict returns for request r: the cache write, then the tail of infer
PredictReturns(r) ==
    /\ BagIn(r, inflight)
    /\ inflight' = inflight (-) SetToBag({r})
    /\ LET r3 == IF cache_enabled
                 THEN kv_call("set_cache", dumps_cache(prediction),
                              redis_breaker, redis_data)
                 ELSE kv_skip("set_cache", redis_breaker, redis_data)
           t3 == IF cache_enabled THEN Append(r.trace, "set_cache")
                 ELSE r.trace
       IN  IF surfaces(r3)
           THEN Fails(r.token, r3.cb, r3.data, t3, FALSE,
                      [type |-> r3.value, message |-> r3.value], r.seen)
           ELSE Finishes(r.token, r3.cb, r3.data, t3, FALSE, r.seen)
    /\ UNCHANGED <<enabled, cfg, now, redis_data0>>
    /\ UNCHANGED <<client, cache_enabled, idempotency_enabled, redis_up,
                   kv_return, kv_failed>>

\* predict raises for request r: the except branch
PredictRaises(r) ==
    /\ BagIn(r, inflight)
    /\ inflight' = inflight (-) SetToBag({r})
    /\ Fails(r.token, redis_breaker, redis_data, r.trace, FALSE,
             [type |-> "RuntimeError", message |-> "predict failed"], r.seen)
    /\ UNCHANGED <<enabled, cfg, now, redis_data0>>
    /\ UNCHANGED <<client, cache_enabled, idempotency_enabled, redis_up,
                   kv_return, kv_failed>>

\* the wall clock advances by one breaker timeout between requests
Elapse ==
    /\ now + cfg.timeout_seconds <= MaxTime
    /\ now' = now + cfg.timeout_seconds
    /\ UNCHANGED <<enabled, cfg, cb>>
    /\ UNCHANGED dbvars

\* no request has arrived
InferIdle ==
    /\ redis_breaker = NewBreaker
    /\ redis_data0 = redis_data
    /\ inflight = EmptyBag
    /\ last_out = NoOut
    /\ prev_out = NoOut
    /\ answered = 0

\* ------------------------------------------------------------ hash_input
VARIABLES
    dicts,          \* the arguments of two hash_input calls
    digest          \* what each call returned, <<>> before

hashvars == <<dicts, digest>>

\* the values of the dictionaries
Values == {"hello", "world"}

\* dictionaries: items in insertion order, no key twice
Dicts ==
    {d \in UNION {[1..n -> Range(KeyOrder) \X Values] : n \in 0..MaxKeys} :
        \A i, j \in DOMAIN d : d[i][1] = d[j][1] => i = j}

InitHash ==
    /\ dicts \in [1..2 -> Dicts]
    /\ digest = [i \in 1..2 |-> <<>>]

\* call i of hash_input returns
HashCall(i) ==
    /\ digest' = [digest EXCEPT ![i] = hash_input(dicts[i])]
    /\ digest'[i] # digest[i]
    /\ UNCHANGED dicts

\* hash_input has not been called
HashIdle ==
    /\ dicts = [i \in 1..2 |-> <<>>]
    /\ digest = [i \in 1..2 |-> <<>>]

\* ------------------------------------------------------ InferenceRequest
VARIABLES
    body,           \* the text of a request body
    verdict,        \* what InferenceRequest validation said of it
    reached         \* whether infer has been called with it

reqvars == <<body, verdict, reached>>

\* Field(min_length=1, max_length=10000), the upper limit scaled to the texts
min_length == 1
max_length == MaxText

\* the texts a client may send: up to one character above the limit
RawTexts == UNION {[1..n -> Chars] : n \in 0..(max_length + 1)}

\* InferenceRequest(text=v): the Field constraints, then validate_text
validate(v) ==
    IF Len(v) < min_length \/ Len(v) > max_length THEN "rejected"
    ELSE IF strip(v) = <<>> THEN "rejected"
    ELSE "accepted"

InitRequest ==
    /\ body \in RawTexts
    /\ verdict = "pending"
    /\ reached = FALSE

\* the framework builds the InferenceRequest from the body
Validate ==
    /\ verdict = "pending"
    /\ verdict' = validate(body)
    /\ UNCHANGED <<body, reached>>

\* the framework calls infer with a validated body
Dispatch ==
    /\ verdict = "accepted"
    /\ ~reached
    /\ reached' = TRUE
    /\ UNCHANGED <<body, verdict>>

\* no body has arrived
RequestIdle ==
    /\ body = <<"a">>
    /\ verdict = "pending"
    /\ reached = FALSE

\* ---------------------------------------------------- lifespan, shutdown
VARIABLES
    stage,          \* where lifespan is: serving, or the next shutdown step
    teardown,       \* history: the shutdown steps attempted, with their outcome
    connections     \* whether redis_service.client / database_service.engine is open

lifevars == <<stage, teardown, connections>>

\* variant of the shutdown: a step that fails ends it
after_step_abort(s, ok) ==
    IF ~ok THEN "done"
    ELSE IF s = "flush" THEN "redis"
    ELSE IF s = "redis" THEN "database"
    ELSE "done"

\* lifespan after a shutdown step: each step sits in its own try/except
\* that only logs, so the next step follows whatever the outcome
after_step(s, ok) ==
    IF s = "flush" THEN "redis"
    ELSE IF s = "redis" THEN "database"
    ELSE "done"

\* a shutdown step is over
StepOver(ok) ==
    /\ teardown' = Append(teardown, [step |-> stage, ok |-> ok])
    /\ stage' = after_step(stage, ok)

\* lifespan resumes after `yield`: no new requests, the grace period
BeginShutdown ==
    /\ stage = "serving"
    /\ stage' = "flush"
    /\ UNCHANGED <<teardown, connections>>
    /\ UNCHANGED <<enabled, cfg, cb, now>>
    /\ UNCHANGED dbvars

\* a request is logged while the application serves
ServeLog ==
    /\ stage = "serving"
    /\ LogRequest
    /\ UNCHANGED <<enabled, cfg, now>>
    /\ UNCHANGED lifevars

\* flush_log_buffer at shutdown finds nothing to flush
ShutdownFlushSkip ==
    /\ stage = "flush"
    /\ flushes = EmptyBag
    /\ FlushSkip
    /\ StepOver(log_buffer' = <<>>)
    /\ UNCHANGED connections

\* flush_log_buffer at shutdown when the database never connected
ShutdownFlushUnconnected ==
    /\ stage = "flush"
    /\ flushes = EmptyBag
    /\ FlushUnconnected
    /\ StepOver(log_buffer' = <<>>)
    /\ UNCHANGED connections

\* flush_log_buffer at shutdown, up to its first write
ShutdownFlushStart ==
    /\ stage = "flush"
    /\ flushes = EmptyBag
    /\ FlushStart
    /\ UNCHANGED lifevars

\* a write of the shutdown flush is over; after the last one the call returns
ShutdownFlushWrite(f) ==
    /\ stage = "flush"
    /\ FlushWriteDone(f)
    /\ IF flushes' = EmptyBag
       THEN StepOver(log_buffer' = <<>>) /\ UNCHANGED connections
       ELSE UNCHANGED lifevars

\* redis_service.disconnect(): client.close() if there is a client; it may raise
RedisDisconnect(ok) ==
    /\ stage = "redis"
    /\ ok \/ connections.redis
    /\ connections' = [connections EXCEPT !.redis = IF ok THEN FALSE ELSE @]
    /\ StepOver(ok)
    /\ UNCHANGED <<enabled, cfg, cb, now>>
    /\ UNCHANGED dbvars

\* database_service.disconnect(): engine.dispose() if there is an engine; it
\* may raise
DatabaseDisconnect(ok) ==
    /\ stage = "database"
    /\ ok \/ connections.database
    /\ connections' = [connections EXCEPT !.database = IF ok THEN FALSE ELSE @]
    /\ StepOver(ok)
    /\ UNCHANGED <<enabled, cfg, cb, now>>
    /\ UNCHANGED dbvars

\* the log store goes down or comes back while the application runs
Outage ==
    /\ StoreFlip
    /\ UNCHANGED lifevars

\* the application serves
LifeIdle ==
    /\ stage = "serving"
    /\ teardown = <<>>
    /\ connections = [redis |-> FALSE, database |-> FALSE]

uvars == <<hashvars, reqvars, lifevars>>

RestIdle == HashIdle /\ RequestIdle /\ LifeIdle

vars == <<cbvars, rvars, dbvars, kvvars, keyvars, ivars, uvars>>

\* the calls that may be in flight
InFlightCalls ==
    [fb : BOOLEAN, admitted : {CLOSED, HALF_OPEN, "bypass"}, moved : BOOLEAN]

Init == InitCB /\ RetryIdle /\ DBIdle /\ KVIdle /\ KeyIdle /\ InferIdle /\ RestIdle

others == <<rvars, dbvars, kvvars, keyvars, ivars, uvars>>

Next ==
    \/ \E fb \in BOOLEAN : CallDisabled(fb) /\ UNCHANGED others
    \/ \E fb \in BOOLEAN : CallShortCircuit(fb) /\ UNCHANGED others
    \/ \E fb \in BOOLEAN : CallAdmit(fb) /\ UNCHANGED others
    \/ \E c \in InFlightCalls : ReturnSuccess(c) /\ UNCHANGED others
    \/ \E c \in InFlightCalls : ReturnFailure(c) /\ UNCHANGED others
    \/ Tick /\ UNCHANGED others

Spec == Init /\ [][Next]_vars

InitR == InitRetry /\ BreakerIdle /\ DBIdle /\ KVIdle /\ KeyIdle /\ InferIdle /\ RestIdle

NextR ==
    \/ RetryStart /\ UNCHANGED <<cbvars, dbvars, kvvars, keyvars, ivars, uvars>>
    \/ \E o \in Outcomes : FuncOver(o) /\ UNCHANGED <<cbvars, dbvars, kvvars, keyvars, ivars, uvars>>
    \/ WakeUp /\ UNCHANGED <<cbvars, dbvars, kvvars, keyvars, ivars, uvars>>

SpecRetry == InitR /\ [][NextR]_vars

\* the dependency fails only at the first clock value: from then on every
\* invoked operation succeeds
EarlyFailure(c) ==
    /\ now = 1
    /\ ReturnFailure(c)

InitL == Init

NextL ==
    \/ \E fb \in BOOLEAN : CallDisabled(fb) /\ UNCHANGED others
    \/ \E fb \in BOOLEAN : CallShortCircuit(fb) /\ UNCHANGED others
    \/ \E fb \in BOOLEAN : CallAdmit(fb) /\ UNCHANGED others
    \/ \E c \in InFlightCalls : ReturnSuccess(c) /\ UNCHANGED others
    \/ \E c \in InFlightCalls : EarlyFailure(c) /\ UNCHANGED others
    \/ Tick /\ UNCHANGED others

\* time keeps advancing, calls keep being made and every call in flight
\* returns
FairL ==
    /\ WF_vars(Tick /\ UNCHANGED others)
    /\ WF_vars(\E fb \in BOOLEAN : CallAdmit(fb) /\ UNCHANGED others)
    /\ WF_vars(\E c \in InFlightCalls : ReturnSuccess(c) /\ UNCHANGED others)

SpecLive == InitL /\ [][NextL]_vars /\ FairL

\* the flush calls that may be in progress
FlushingCalls == DOMAIN flushes

InitD ==
    /\ enabled \in BOOLEAN
    /\ cfg \in [failure_threshold : 1..MaxThreshold,
                timeout_seconds : {MaxTimeout},
                half_open_attempts : {MaxProbes}]
    /\ cb = NewBreaker
    /\ now = 1
    /\ NoHistory
    /\ RetryIdle
    /\ InitDB
    /\ KVIdle
    /\ KeyIdle
    /\ InferIdle
    /\ RestIdle

NextD ==
    \/ LogRequest /\ UNCHANGED <<enabled, cfg, now, hvars, rvars, kvvars, keyvars, ivars, uvars>>
    \/ FlushSkip /\ UNCHANGED <<hvars, rvars, kvvars, keyvars, ivars, uvars>>
    \/ FlushUnconnected /\ UNCHANGED <<hvars, rvars, kvvars, keyvars, ivars, uvars>>
    \/ FlushStart /\ UNCHANGED <<hvars, rvars, kvvars, keyvars, ivars, uvars>>
    \/ \E f \in FlushingCalls : FlushWriteDone(f) /\ UNCHANGED <<hvars, rvars, kvvars, keyvars, ivars, uvars>>
    \/ StoreFlip /\ UNCHANGED <<hvars, rvars, kvvars, keyvars, ivars, uvars>>
    \/ TickDB /\ UNCHANGED <<hvars, rvars, kvvars, keyvars, ivars, uvars>>

SpecDB == InitD /\ [][NextD]_vars

\* environment: the log store comes back and stays up
StoreRecover ==
    /\ ~store_up
    /\ StoreFlip

InitDL == InitD

others_d == <<hvars, rvars, kvvars, keyvars, ivars, uvars>>

NextDL ==
    \/ LogRequest /\ UNCHANGED <<enabled, cfg, now>> /\ UNCHANGED others_d
    \/ StoreRecover /\ UNCHANGED others_d
    \/ TickDB /\ UNCHANGED others_d

\* requests keep arriving, time advances, the store comes back
FairDL ==
    /\ WF_vars(LogRequest /\ UNCHANGED <<enabled, cfg, now>>
                          /\ UNCHANGED others_d)
    /\ WF_vars(StoreRecover /\ UNCHANGED others_d)
    /\ WF_vars(TickDB /\ UNCHANGED others_d)

SpecDBLive == InitDL /\ [][NextDL]_vars /\ FairDL

InitK ==
    /\ enabled \in BOOLEAN
    /\ cfg \in [failure_threshold : 1..MaxThreshold,
                timeout_seconds : 1..MaxTimeout,
                half_open_attempts : 1..MaxProbes]
    /\ cb = NewBreaker
    /\ now = 1
    /\ NoHistory
    /\ RetryIdle
    /\ DBIdle
    /\ InitKV
    /\ KeyIdle
    /\ InferIdle
    /\ RestIdle

NextK ==
    \/ get_cache /\ UNCHANGED <<hvars, rvars, dbvars, keyvars, ivars, uvars>>
    \/ set_cache /\ UNCHANGED <<hvars, rvars, dbvars, keyvars, ivars, uvars>>
    \/ check_idempotency /\ UNCHANGED <<hvars, rvars, dbvars, keyvars, ivars, uvars>>
    \/ store_idempotency /\ UNCHANGED <<hvars, rvars, dbvars, keyvars, ivars, uvars>>
    \/ RedisFlip /\ UNCHANGED <<hvars, rvars, dbvars, keyvars, ivars, uvars>>
    \/ TickDB /\ UNCHANGED <<hvars, rvars, kvvars, keyvars, ivars, uvars>>

SpecKV == InitK /\ [][NextK]_vars

InitH ==
    /\ InitKey
    /\ BreakerIdle
    /\ RetryIdle
    /\ DBIdle
    /\ KVIdle
    /\ InferIdle
    /\ RestIdle

NextH ==
    \E i \in 1..2 :
        ComputeKey(i) /\ UNCHANGED <<cbvars, rvars, dbvars, kvvars, ivars, uvars>>

SpecKey == InitH /\ [][NextH]_vars

\* the requests that may be suspended in predict
SuspendedRequests == DOMAIN inflight

InitI ==
    /\ enabled \in BOOLEAN
    /\ cfg \in [failure_threshold : {MaxThreshold},
                timeout_seconds : {MaxTimeout},
                half_open_attempts : {MaxProbes}]
    /\ cb = NewBreaker
    /\ now = 1
    /\ NoHistory
    /\ RetryIdle
    /\ KeyIdle
    /\ InitDB
    /\ session_factory
    /\ maxlen = MaxLen
    /\ client \in BOOLEAN
    /\ cache_enabled \in BOOLEAN
    /\ idempotency_enabled \in BOOLEAN
    /\ redis_up \in BOOLEAN
    /\ redis_data \in StoredValues
    /\ kv_return = NoKV
    /\ kv_failed = {}
    /\ InferIdle
    /\ RestIdle

NextI ==
    \/ \E token \in BOOLEAN :
          InferStart(token) /\ UNCHANGED <<hvars, rvars, keyvars, uvars>>
    \/ \E r \in SuspendedRequests :
          PredictReturns(r) /\ UNCHANGED <<hvars, rvars, keyvars, uvars>>
    \/ \E r \in SuspendedRequests :
          PredictRaises(r) /\ UNCHANGED <<hvars, rvars, keyvars, uvars>>
    \/ Elapse /\ UNCHANGED <<hvars, rvars, kvvars, keyvars, ivars, uvars>>

SpecInfer == InitI /\ [][NextI]_vars

InitX ==
    /\ InitHash
    /\ BreakerIdle /\ RetryIdle /\ DBIdle /\ KVIdle /\ KeyIdle /\ InferIdle
    /\ RequestIdle /\ LifeIdle

NextX ==
    \E i \in 1..2 :
        HashCall(i)
        /\ UNCHANGED <<cbvars, rvars, dbvars, kvvars, keyvars, ivars,
                       reqvars, lifevars>>

SpecHash == InitX /\ [][NextX]_vars

InitV ==
    /\ InitRequest
    /\ BreakerIdle /\ RetryIdle /\ DBIdle /\ KVIdle /\ KeyIdle /\ InferIdle
    /\ HashIdle /\ LifeIdle

others_v == <<cbvars, rvars, dbvars, kvvars, keyvars, ivars, hashvars, lifevars>>

NextV ==
    \/ Validate /\ UNCHANGED others_v
    \/ Dispatch /\ UNCHANGED others_v

SpecValidate == InitV /\ [][NextV]_vars

InitS ==
    /\ enabled \in BOOLEAN
    /\ cfg \in [failure_threshold : 1..MaxThreshold,
                timeout_seconds : {MaxTimeout},
                half_open_attempts : {MaxProbes}]
    /\ cb = NewBreaker
    /\ now = 1
    /\ NoHistory
    /\ RetryIdle /\ KVIdle /\ KeyIdle /\ InferIdle /\ HashIdle /\ RequestIdle
    /\ InitDB
    /\ stage = "serving"
    /\ teardown = <<>>
    /\ connections \in [redis : BOOLEAN, database : {session_factory}]

others_s == <<hvars, rvars, kvvars, keyvars, ivars, hashvars, reqvars>>

NextS ==
    \/ ServeLog /\ UNCHANGED others_s
    \/ Outage /\ UNCHANGED others_s
    \/ BeginShutdown /\ UNCHANGED others_s
    \/ ShutdownFlushSkip /\ UNCHANGED others_s
    \/ ShutdownFlushUnconnected /\ UNCHANGED others_s
    \/ ShutdownFlushStart /\ UNCHANGED others_s
    \/ \E f \in FlushingCalls : ShutdownFlushWrite(f) /\ UNCHANGED others_s
    \/ \E ok \in BOOLEAN : RedisDisconnect(ok) /\ UNCHANGED others_s
    \/ \E ok \in BOOLEAN : DatabaseDisconnect(ok) /\ UNCHANGED others_s

SpecShutdown == InitS /\ [][NextS]_vars

TypeOK ==
    /\ enabled \in BOOLEAN
    /\ cb.state \in CircuitBreakerState
    /\ cb.failure_count \in Nat
    /\ cb.success_count \in Nat
    /\ now \in 1..MaxTime

\* ------------------------------------------------------- steps, as observed
IsAdmit  == BagCardinality(calls') = BagCardinality(calls) + 1
IsReturn == BagCardinality(calls') = BagCardinality(calls) - 1
IsShort  == last' # last /\ last'.op = "short"
SinceFailure == now - cb.last_failure_time

\* ------------------------------------------------------------------ claims

C1_Closed ==
    (enabled /\ cb.state = CLOSED) =>
        /\ cb.failure_count = streak
        /\ streak < cfg.failure_threshold

C1_Return ==
    (enabled /\ IsReturn /\ cb.state = CLOSED) =>
        /\ last'.outcome = "ok" =>
               cb'.state = CLOSED /\ cb'.failure_count = 0
        /\ last'.outcome = "fail" =>
               /\ cb'.failure_count = cb.failure_count + 1
               /\ (cb'.state = OPEN) <=> (streak' = cfg.failure_threshold)
               /\ (streak' < cfg.failure_threshold) => cb'.state = CLOSED

C1_Opens ==
    (enabled /\ cb.state = CLOSED /\ cb'.state # CLOSED) =>
        /\ cb'.state = OPEN
        /\ last'.outcome = "fail"
        /\ streak' = cfg.failure_threshold
        /\ cb'.failure_count = cfg.failure_threshold

\* C1: with circuit breaking enabled, a Closed breaker's failure_count is the
\* number of failing calls recorded since the last success or closing and is
\* below failure_threshold; a failing call returning while Closed opens the
\* breaker exactly when it is the failure_threshold-th in a row (failure_count
\* then equals failure_threshold), fewer leave it Closed, and a successful
\* call returning while Closed resets failure_count to 0.
C1_OpensAtThreshold == []C1_Closed /\ [][C1_Return /\ C1_Opens]_vars

C1_Witness ==
    /\ enabled /\ cfg.failure_threshold >= 2
    /\ cb.state = OPEN /\ cb.failure_count = cfg.failure_threshold
    /\ streak = cfg.failure_threshold
    /\ last.op = "ret" /\ last.outcome = "fail" /\ last.admitted = CLOSED

C2_Step ==
    (enabled /\ cb.state = OPEN /\ SinceFailure < cfg.timeout_seconds) =>
        /\ ~IsAdmit
        /\ (now' = now /\ calls' = calls) =>
               /\ cb' = cb
               /\ last'.op = "short" /\ ~last'.invoked
               /\ last'.fb => (last'.result = "fallback" /\ last'.fbInvoked)
               /\ ~last'.fb => (last'.result = "open_error" /\ ~last'.fbInvoked)

\* C2: while the breaker is Open and less than timeout_seconds has passed
\* since last_failure_time, no call is admitted to the operation; a call made
\* then ends at once with the fallback's result when a fallback was given and
\* with CircuitBreakerOpenError otherwise, leaving state, failure_count,
\* success_count and last_failure_time as they were.
C2_OpenShortCircuits == [][C2_Step]_vars

C2_Witness ==
    /\ enabled /\ cb.state = OPEN /\ SinceFailure < cfg.timeout_seconds
    /\ last.op = "short" /\ last.fb /\ last.result = "fallback"
    /\ ~last.invoked

C3_Call ==
    (enabled /\ cb.state = OPEN /\ SinceFailure >= cfg.timeout_seconds) =>
        /\ ~IsShort
        /\ IsAdmit => /\ cb'.state = HALF_OPEN
                      /\ cb'.success_count = 0
                      /\ \A c \in BagToSet(calls' (-) calls) :
                             c.moved /\ c.admitted = HALF_OPEN

C3_Return ==
    (/\ enabled /\ IsReturn /\ last'.moved /\ last'.solo
     /\ last'.outcome = "ok" /\ cfg.half_open_attempts > 1) =>
        cb'.state = HALF_OPEN /\ cb'.success_count = 1

\* C3: once the breaker has been Open for timeout_seconds or more since
\* last_failure_time, a call is not short-circuited: it moves the breaker to
\* HalfOpen with success_count 0 and invokes the operation; when that
\* operation succeeds with no other call interleaved and half_open_attempts > 1,
\* the breaker is HalfOpen with success_count 1 as the call returns.
C3_ProbeAfterTimeout == [][C3_Call /\ C3_Return]_vars

C3_Witness ==
    /\ enabled /\ cfg.half_open_attempts > 1 /\ NoneRunning
    /\ last.op = "ret" /\ last.moved /\ last.solo /\ last.outcome = "ok"
    /\ cb.state = HALF_OPEN /\ cb.success_count = 1

\* C4: right after the last of half_open_attempts consecutive successful
\* probes returns (the first being the call that moved the breaker from Open
\* to HalfOpen), the breaker is Closed.
C4_ClosedAfterProbes ==
    (/\ enabled /\ NoneRunning
     /\ last.op = "ret" /\ last.outcome = "ok" /\ last.solo
     /\ last.admitted = HALF_OPEN
     /\ probeRun >= cfg.half_open_attempts) =>
        cb.state = CLOSED

C5_FailedProbe ==
    enabled /\ IsReturn /\ last'.outcome = "fail" /\ cb.state = HALF_OPEN

\* C5 as stated: a failed call while HalfOpen puts the breaker back in Open
\* and resets success_count to 0 in that transition.
C5_ReopenResets ==
    [][C5_FailedProbe => cb'.state = OPEN /\ cb'.success_count = 0]_vars

\* C5 amended: a failed call while HalfOpen puts the breaker back in Open
\* whatever success_count is and leaves success_count as it was; the count
\* is reset to 0 when the breaker next moves from Open to HalfOpen.
C5_ReopenKeepsCount ==
    [][/\ C5_FailedProbe =>
              cb'.state = OPEN /\ cb'.success_count = cb.success_count
       /\ (cb.state = OPEN /\ cb'.state = HALF_OPEN) => cb'.success_count = 0
       /\ (cb.state = OPEN /\ cb'.state = OPEN) =>
              cb'.success_count = cb.success_count]_vars

C5_Witness ==
    /\ enabled /\ cb.state = OPEN /\ cb.success_count >= 1
    /\ last.op = "ret" /\ last.outcome = "fail" /\ last.admitted = HALF_OPEN

\* C6: with circuit breaking enabled, a call whose operation was invoked and
\* failed ends with that failure re-raised and without the fallback having
\* run, fallback supplied or not; the fallback runs only in calls that never
\* invoked the operation.
C6_FailureReraised ==
    enabled =>
        /\ (last.op = "ret" /\ last.outcome = "fail") =>
               last.result = "func_error" /\ ~last.fbInvoked
        /\ last.fbInvoked => (last.op = "short" /\ ~last.invoked)

C6_Witness ==
    /\ enabled /\ last.op = "ret" /\ last.outcome = "fail" /\ last.fb
    /\ last.admitted = HALF_OPEN /\ last.result = "func_error"
    /\ ~last.fbInvoked

C7_Finished ==
    (~enabled /\ last.op # "none") =>
        /\ last.op = "ret" /\ last.invoked /\ ~last.fbInvoked
        /\ last.result = IF last.outcome = "ok" THEN "value" ELSE "func_error"

\* whatever state the breaker is in, the bookkeeping of a disabled call is void
C7_AnyState ==
    ~enabled =>
        \A st \in CircuitBreakerState, ok \in BOOLEAN :
            LET b == [cb EXCEPT !.state = st]
            IN  after_func(enabled, cfg, b, now, ok) = b

\* C7: with circuit breaking disabled, every call invokes the operation and
\* ends with its outcome; no step changes state, failure_count, success_count
\* or last_failure_time, and the fallback never runs.
C7_DisabledBypass ==
    []C7_Finished /\ []C7_AnyState /\ [][~enabled => cb' = cb]_vars

C7_Witness ==
    /\ ~enabled /\ last.op = "ret" /\ last.outcome = "fail" /\ last.fb
    /\ last.result = "func_error" /\ cb = NewBreaker

AllRetryable(seq) == \A i \in 1..Len(seq) : seq[i] = "retryable"

C8_Delays(e) ==
    \A i \in 1..Len(delays) :
        /\ i <= e.max_attempts - 1
        /\ delays[i] = Min(e.base_delay_ms * Pow(e.exponential_base, i - 1),
                           e.max_delay_ms)

\* C8: with retry enabled, the wait made after failed attempt i (0-based) is
\* min(base_delay_ms * exponential_base^i, max_delay_ms) and only attempts
\* before the last are followed by a wait; a run whose every attempt failed
\* with a retryable error has made exactly max_attempts attempts and
\* max_attempts - 1 waits and raises the last attempt's exception; a run in
\* which attempt k succeeded returned at once after exactly k attempts and
\* k - 1 waits.
C8_RetrySchedule ==
    retry_enabled =>
        LET e == effective(args)
            n == Len(outcomes)
        IN  /\ n <= e.max_attempts
            /\ C8_Delays(e)
            /\ (rpc = "done" /\ AllRetryable(outcomes)) =>
                   /\ n = e.max_attempts
                   /\ Len(delays) = e.max_attempts - 1
                   /\ rresult = [kind |-> "raise", attempt |-> n,
                                 error |-> "retryable"]
            /\ \A k \in 1..n :
                   outcomes[k] = "ok" =>
                       /\ k = n /\ rpc = "done"
                       /\ rresult = [kind |-> "return", attempt |-> k,
                                     error |-> "none"]
                       /\ Len(delays) = k - 1

C8_Witness ==
    /\ retry_enabled /\ rpc = "done"
    /\ effective(args) = [max_attempts |-> 3, base_delay_ms |-> 100,
                          max_delay_ms |-> 5000, exponential_base |-> 2]
    /\ outcomes = <<"retryable", "retryable", "retryable">>
    /\ delays = <<100, 200>>
    /\ rresult = [kind |-> "raise", attempt |-> 3, error |-> "retryable"]

\* C9: with retry enabled, an attempt that raises an exception outside
\* `exceptions` is the last one: the run is over with that exception raised,
\* no wait was made after it and no further attempt follows, however many
\* attempts remain.
C9_FatalPropagates ==
    retry_enabled =>
        \A k \in 1..Len(outcomes) :
            outcomes[k] = "fatal" =>
                /\ k = Len(outcomes) /\ rpc = "done"
                /\ rresult = [kind |-> "raise", attempt |-> k,
                              error |-> "fatal"]
                /\ Len(delays) = k - 1

C9_Witness ==
    /\ retry_enabled /\ rpc = "done"
    /\ effective(args).max_attempts >= 3
    /\ outcomes = <<"retryable", "fatal">>
    /\ Len(delays) = 1
    /\ rresult = [kind |-> "raise", attempt |-> 2, error |-> "fatal"]

\* C10: with retry disabled, func is invoked once, no wait is made, and the
\* run ends with that one invocation's result or exception.
C10_DisabledOnce ==
    ~retry_enabled =>
        /\ Len(outcomes) <= 1
        /\ delays = <<>>
        /\ rpc \in {"start", "attempt", "done"}
        /\ rpc = "done" =>
               /\ Len(outcomes) = 1
               /\ rresult = IF outcomes[1] = "ok"
                            THEN [kind |-> "return", attempt |-> 1,
                                  error |-> "none"]
                            ELSE [kind |-> "raise", attempt |-> 1,
                                  error |-> outcomes[1]]

C10_Witness ==
    /\ ~retry_enabled /\ rpc = "done"
    /\ effective(args).max_attempts >= 2
    /\ outcomes = <<"retryable">>
    /\ rresult = [kind |-> "raise", attempt |-> 1, error |-> "retryable"]

\* ------------------------------------------- DatabaseService: observers
\* a step in which log_inference_request is called and returns
IsLog == next_request' = next_request + 1

\* the breaker state the call is decided on: after _update_state, or no
\* breaker at all when it is disabled
LogAdmitted ==
    IF enabled THEN update_state(cfg, cb, now).state ELSE "bypass"

\* the log store would take a write: connected and up
StoreReachable == store_up /\ session_factory

\* a log_inference_request step that runs _fallback
IsEnqueue == IsLog /\ LogAdmitted = OPEN

\* the number of rows of inference_logs that hold record r
Rows(r) == Cardinality({i \in 1..Len(table) : table[i] = r})

\* the step in which a flush that ran beside nothing else returns
QuietFinish ==
    /\ flush_quiet # <<>>
    /\ flushes # EmptyBag
    /\ flushes' = EmptyBag

\* C11: after any interleaving of log_inference_request and flush_log_buffer
\* the buffer never holds more than maxlen records.
C11_BufferBounded == Len(log_buffer) <= maxlen

\* a full buffer after records were dropped and a flush has put records back
C11_Witness ==
    /\ Len(log_buffer) = maxlen
    /\ dropped_logs_total >= 1
    /\ flush_return.ret # None
    /\ flushes # EmptyBag

\* C12: an enqueue into a full buffer evicts exactly the oldest record, adds
\* one to dropped_logs_total and puts the new record last; an enqueue into a
\* buffer that is not full evicts nothing and leaves the counter alone.
C12_EnqueueEvictsOldest ==
    [][IsEnqueue =>
         IF Len(log_buffer) = maxlen
         THEN /\ log_buffer' = Append(Tail(log_buffer), next_request)
              /\ dropped_logs_total' = dropped_logs_total + 1
         ELSE /\ log_buffer' = Append(log_buffer, next_request)
              /\ dropped_logs_total' = dropped_logs_total]_vars

\* capacity 2, three records enqueued, no flush: the last two remain and one
\* drop is counted
C12_Witness ==
    /\ maxlen = 2
    /\ Cardinality(enqueued) = 3
    /\ flush_return = NoFlush
    /\ \E r \in enqueued :
          /\ evicted = {r}
          /\ \A q \in enqueued : r <= q
          /\ Range(log_buffer) = enqueued \ {r}
    /\ Len(log_buffer) = 2
    /\ log_buffer[1] < log_buffer[2]
    /\ dropped_logs_total = 1

\* C13: when log_inference_request returns, its record is persisted, or in
\* the buffer, or was evicted and counted; and whenever the durable write
\* would fail (store down or never connected) the record is in the buffer.
C13_NoSilentDiscard ==
    [][IsLog =>
         /\ \/ Rows(next_request)' >= 1
            \/ next_request \in Range(log_buffer')
            \/ next_request \in evicted'
         /\ ~StoreReachable => next_request \in Range(log_buffer')]_vars

\* C14: the store is down for the whole of five log_inference_request calls
\* and no flush has run: exactly those five records are in the buffer, in
\* the order logged.
C14_OutageBuffered ==
    (outage /\ next_request = 6 /\ maxlen >= 5)
        => log_buffer = <<1, 2, 3, 4, 5>>

\* C15: log_inference_request never raises: every call returns a boolean.
C15_NeverRaises ==
    [][IsLog => /\ log_return'.kind = "return"
                /\ log_return'.value \in BOOLEAN]_vars

\* a call has returned after a half-open probe failed while the store was down
C15_Witness ==
    /\ log_return.kind = "return"
    /\ ~store_up
    /\ cb.state = OPEN
    /\ cb.failure_count > cfg.failure_threshold

\* C16: with the store reachable and the breaker not open the call persists
\* the record exactly once, does not enqueue it and returns True; a call
\* returns False only when its record was buffered.
C16_HealthyWrite ==
    [][IsLog =>
         /\ (StoreReachable /\ LogAdmitted # OPEN) =>
               /\ Rows(next_request)' = 1
               /\ next_request \notin Range(log_buffer')
               /\ log_return'.value = TRUE
         /\ log_return'.value = FALSE =>
               next_request \in Range(log_buffer')]_vars

\* the buffer as a flush that began with `start` must leave it: the records
\* not persisted, in their original order
Unwritten(start, rows) ==
    LET kept(r) == r \notin Range(rows)
    IN  SelectSeq(start, kept)

\* the rows written from `start`, in commit order
Written(start, rows) ==
    LET mine(r) == r \in Range(start)
    IN  SelectSeq(rows, mine)

\* the records of `start` that were persisted, in their original order
Persisted(start, rows) ==
    LET done(r) == r \in Range(rows)
    IN  SelectSeq(start, done)

\* C17: a flush with no concurrent enqueue writes the records oldest first,
\* returns the number it persisted and leaves exactly the records whose
\* write failed, in their original order: returned + remaining = initial
\* length, no record lost or duplicated.  Without a session factory every
\* write fails: the flush returns 0 and leaves the buffer as it found it.
C17_QuietFlush ==
    [][/\ QuietFinish =>
            /\ Written(flush_quiet, table') = Persisted(flush_quiet, table')
            /\ flush_return'.ret = Len(Persisted(flush_quiet, table'))
            /\ log_buffer' = Unwritten(flush_quiet, table')
            /\ flush_return'.ret + Len(log_buffer') = Len(flush_quiet)
            /\ \A r \in Range(flush_quiet) : Rows(r)' <= 1
       /\ (~session_factory /\ ~IsLog) =>
            /\ log_buffer' = log_buffer
            /\ table' = table
            /\ flush_return' # flush_return => flush_return'.ret = 0]_vars

\* a quiet flush persisted some records and put at least two back
C17_Witness ==
    /\ flush_return.quiet
    /\ flush_return.ret >= 1
    /\ flush_return.initial >= flush_return.ret + 2
    /\ Len(log_buffer) >= 2
    /\ flushes = EmptyBag

\* C18: with enqueues interleaving at a flush's writes no record is written
\* twice, and once no flush is running every record that was put into the
\* buffer is persisted or in the buffer, unless an enqueue into a full buffer
\* evicted it and counted it.
C18_FlushKeepsRecords ==
    /\ \A r \in enqueued : Rows(r) <= 1
    /\ flushes = EmptyBag =>
          \A r \in enqueued :
              \/ Rows(r) = 1
              \/ r \in Range(log_buffer)
              \/ r \in evicted

\* C19: whenever no flush is in progress a non-empty buffer has
\* buffer_enabled set.
C19_FlagCoversBuffer ==
    (flushes = EmptyBag /\ log_buffer # <<>>) => buffer_enabled

\* C20: the redis adapters never raise: get_cache and check_idempotency
\* return the stored value or None, set_cache and store_idempotency return
\* True or False, whatever redis does and whatever state the breaker is in.
C20_AdaptersNeverRaise ==
    kv_return.op # "none" =>
        /\ kv_return.kind = "return"
        /\ kv_return.op \in Reads =>
              \/ kv_return.value = "None"
              \/ kv_return.value = redis_data[kv_key(kv_return.op)]
        /\ kv_return.op \in Writes => kv_return.value \in {"True", "False"}

\* an adapter has returned from a half-open probe made while redis was down
C20_Witness ==
    /\ kv_return.op \in Reads
    /\ kv_return.kind = "return"
    /\ kv_return.admitted = HALF_OPEN
    /\ ~redis_up
    /\ cb.state = OPEN

\* ---------------------------------------------- RedisService: observers
\* a step in which adapter `op` is called and returns
AdapterStep(op) ==
    /\ Adapter(op)
    /\ UNCHANGED <<client, cache_enabled, idempotency_enabled, redis_up>>
    /\ UNCHANGED <<enabled, cfg, now>>

\* the feature the operation belongs to is switched on
FeatureOn(op) ==
    IF op \in {"get_cache", "set_cache"} THEN cache_enabled
    ELSE idempotency_enabled

\* the state of the redis breaker the call is decided on
KVAdmitted ==
    IF enabled THEN update_state(cfg, cb, now).state ELSE "bypass"

\* C21: with the feature on, the client connected and the breaker not open,
\* the redis command is executed: with redis up the adapter returns the
\* command's result (the stored value, or True for a write) and the breaker
\* records a success.
C21_StoreOpExecuted ==
    [][\A op \in Reads \cup Writes :
         (/\ AdapterStep(op)
          /\ FeatureOn(op) /\ client /\ redis_up
          /\ KVAdmitted # OPEN)
         => /\ kv_return'.value = redis_outcome(op, redis_up, redis_data)
            /\ enabled => cb' = on_success(update_state(cfg, cb, now))]_vars

C23_OwnBreakers ==
    kv_return.admitted = OPEN => kv_key(kv_return.op) \in kv_failed

\* C23 (amended): the four operations share the one "redis" breaker: each
\* is decided on its state, is short-circuited to None / False while it is
\* open whichever family's failures opened it, and otherwise has its
\* failure counted on it.
C23_SharedBreaker ==
    [][\A op \in Reads \cup Writes :
         (AdapterStep(op) /\ FeatureOn(op) /\ client /\ enabled)
         => IF update_state(cfg, cb, now).state = OPEN
            THEN /\ kv_return'.admitted = OPEN
                 /\ kv_return'.value = IF op \in Reads THEN "None" ELSE "False"
                 /\ cb' = update_state(cfg, cb, now)
                 /\ kv_failed' = kv_failed
            ELSE /\ kv_return'.admitted # OPEN
                 /\ kv_key(op) \in kv_failed' =>
                       cb'.failure_count =
                           update_state(cfg, cb, now).failure_count + 1]_vars

\* an idempotency call was short-circuited by a breaker that only cache
\* failures had opened
C23_Witness ==
    /\ kv_return.op \in {"check_idempotency", "store_idempotency"}
    /\ kv_return.admitted = OPEN
    /\ kv_failed = {"cache"}

\* C27: two requests whose texts have the same normalized form are looked
\* up and stored under the same cache key, the hash of {"text": normalized
\* text}.
C27_NormalizedKey ==
    (/\ input_hash[1] # <<>>
     /\ input_hash[2] # <<>>
     /\ normalize_text(texts[1]) = normalize_text(texts[2]))
    => /\ input_hash[1] = input_hash[2]
       /\ input_hash[1] = hash_input([text |-> normalize_text(texts[1])])

\* ------------------------------------------------------------ infer claims
\* the step ends a request
IsEnd == next_request' # next_request

\* the key-value store is connected and answering
KVHealthy == client /\ redis_up

\* the latest two finished requests ran one after the other and both were
\* answered
TwoAnswered ==
    /\ prev_out.kind = "response"
    /\ last_out.kind = "response"
    /\ last_out.sequential

\* C24: with idempotency enabled and the key-value store healthy, two
\* sequential requests bearing the same idempotency token return identical
\* response payloads and the second does not invoke the model.
C24_SameTokenSameResponse ==
    (/\ idempotency_enabled
     /\ KVHealthy
     /\ TwoAnswered
     /\ prev_out.token
     /\ last_out.token)
    => /\ model_dump_json(last_out.response) = model_dump_json(prev_out.response)
       /\ "predict" \notin Range(last_out.trace)

C26_SecondRequestHits ==
    (/\ cache_enabled
     /\ KVHealthy
     /\ redis_data0[kv_key("get_cache")] = "None"
     /\ TwoAnswered
     /\ ~prev_out.token
     /\ ~last_out.token)
    => /\ \/ prev_out.response.cache_hit
          \/ prev_out.trace = <<"get_cache", "predict", "set_cache", "log">>
       /\ ~prev_out.response.idempotency_hit
       /\ last_out.response.cache_hit
       /\ last_out.response.prediction = prev_out.response.prediction
       /\ "predict" \notin Range(last_out.trace)

\* C28: whatever the stores hold or answer and whatever the breakers'
\* states, a request ends without a successful response only when its model
\* invocation raised.
C28_OnlyModelFailureSurfaces ==
    [][(IsEnd /\ last_out'.kind # "response")
       => \E r \in SuspendedRequests : PredictRaises(r)]_vars

\* a request whose model call succeeded was answered although the cache
\* write, the idempotency write and the log write all failed
C28_Witness ==
    /\ last_out.kind = "response"
    /\ last_out.trace = <<"check_idempotency", "get_cache", "predict",
                          "set_cache", "store_idempotency", "log">>
    /\ KVHealthy
    /\ redis_breaker.failure_count > 0
    /\ ~log_return.value

\* C29: when the model invocation fails the request logs a failure record
\* (success false, cache_hit false, the error kind and message), raises an
\* error carrying the kind, the message, the worker id and the request id,
\* and writes neither a cache entry nor an idempotency record.
C29_ModelFailure ==
    [][(\E r \in SuspendedRequests : PredictRaises(r))
       => /\ last_out'.kind = "error"
          /\ last_out'.audit.success = FALSE
          /\ last_out'.audit.cache_hit = FALSE
          /\ last_out'.audit.error_type = "RuntimeError"
          /\ last_out'.audit.error_message = "predict failed"
          /\ last_out'.detail =
                [error |-> "predict failed", error_type |-> "RuntimeError",
                 worker_id |-> "worker-1", request_id |-> "request_id"]
          /\ "set_cache" \notin Range(last_out'.trace)
          /\ "store_idempotency" \notin Range(last_out'.trace)
          /\ redis_data' = redis_data]_vars

\* a request with a token failed in the model while both features were on
C29_Witness ==
    /\ last_out.kind = "error"
    /\ last_out.token
    /\ last_out.trace = <<"check_idempotency", "get_cache", "predict", "log">>
    /\ KVHealthy

\* the order of the dependency operations of a request
Order ==
    <<"check_idempotency", "get_cache", "predict", "set_cache",
      "store_idempotency", "log">>

\* the operations of `Order` that occur in trace t, in that order, once each
InOrder(t) == SelectSeq(Order, LAMBDA op : op \in Range(t))

\* C30: a successful request with a token that misses both stores performs
\* idempotency check, cache get, predict, cache set, idempotency store and
\* audit log in this order, each at most once; a cache set comes only after
\* a model invocation and never in a request answered from the cache.
C30_OperationOrder ==
    /\ (/\ last_out.kind = "response"
        /\ last_out.token
        /\ ~last_out.response.cache_hit
        /\ ~last_out.response.idempotency_hit)
       => /\ last_out.trace = InOrder(last_out.trace)
          /\ (cache_enabled /\ idempotency_enabled) => last_out.trace = Order
    /\ \A i \in 1..Len(last_out.trace) :
          last_out.trace[i] = "set_cache"
          => /\ \E j \in 1..(i - 1) : last_out.trace[j] = "predict"
             /\ ~last_out.response.cache_hit

\* a request with a token was answered after all six operations
C30_Witness ==
    /\ last_out.kind = "response"
    /\ last_out.token
    /\ last_out.trace = Order
    /\ ~last_out.response.cache_hit

\* ------------------------------------------- breaker claims, concurrency
\* C34: in every reachable state, whatever the order in which concurrent
\* calls are admitted and finish, a Closed breaker has counted fewer
\* failures than failure_threshold.
C34_ClosedBelowThreshold ==
    cb.state = CLOSED => cb.failure_count < cfg.failure_threshold

\* a call failed while another call was in flight and the breaker stayed
\* Closed with the failure counted
C34_Witness ==
    /\ enabled
    /\ cb.state = CLOSED
    /\ cb.failure_count > 0
    /\ last.op = "ret"
    /\ last.outcome = "fail"
    /\ ~last.solo
    /\ ~NoneRunning

\* the step is the return of a call admitted while Closed into a breaker
\* that has since opened and gone HalfOpen
StaleReturn ==
    /\ enabled
    /\ IsReturn
    /\ last'.op = "ret"
    /\ last'.admitted = CLOSED
    /\ cb.state = HALF_OPEN

\* C35: a call admitted while Closed that finishes after the breaker went
\* Open and then HalfOpen changes neither the half-open success count nor
\* the state: only calls admitted in HalfOpen decide between Closed and Open.
C35_StaleOutcomeIgnored ==
    [][StaleReturn
       => /\ cb'.success_count = cb.success_count
          /\ cb'.state = HALF_OPEN]_vars

\* ------------------------------------------- hashing and validation claims
\* both hash_input calls have returned
BothHashed == digest[1] # <<>> /\ digest[2] # <<>>

\* the keys of a dictionary
Keys(d) == {d[i][1] : i \in DOMAIN d}

\* C32: hash_input returns the same digest for equal dictionaries and for
\* dictionaries holding the same key/value pairs in a different insertion
\* order, and different digests for dictionaries that differ in a value.
C32_HashDeterministic ==
    BothHashed =>
        /\ Range(dicts[1]) = Range(dicts[2]) => digest[1] = digest[2]
        /\ (/\ Keys(dicts[1]) = Keys(dicts[2])
            /\ \E k \in Keys(dicts[1]) :
                  getitem(dicts[1], k) # getitem(dicts[2], k))
           => digest[1] # digest[2]

\* two dictionaries with the same items inserted in different orders were
\* hashed to one digest
C32_Witness ==
    /\ BothHashed
    /\ dicts[1] # dicts[2]
    /\ Range(dicts[1]) = Range(dicts[2])
    /\ digest[1] = digest[2]

\* C33: validation accepts a text exactly when its length after trimming
\* whitespace is between the lower and the upper limit, and a rejected
\* request never reaches infer.
C33_TrimmedLength ==
    /\ verdict # "pending"
       => (verdict = "accepted"
           <=> Len(strip(body)) \in min_length..max_length)
    /\ reached => verdict = "accepted"

\* ------------------------------------------ infer claims, second series
\* the latest two finished requests overlapped, both carried the token and
\* both were answered after invoking the model and calling store_idempotency
BothMissed ==
    /\ prev_out.kind = "response"
    /\ last_out.kind = "response"
    /\ ~last_out.sequential
    /\ prev_out.token
    /\ last_out.token
    /\ "predict" \in Range(prev_out.trace)
    /\ "predict" \in Range(last_out.trace)
    /\ "store_idempotency" \in Range(prev_out.trace)
    /\ "store_idempotency" \in Range(last_out.trace)

\* C31: with a healthy key-value store, two concurrent requests bearing the
\* same token that both miss the idempotency check both invoke the model
\* and both store their response under the token, the later store
\* overwriting the earlier: the store then holds the later response.
C31_LastWriteWins ==
    (idempotency_enabled /\ KVHealthy /\ BothMissed)
    => redis_data[kv_key("store_idempotency")]
          = model_dump_json(last_out.response)

\* the number of "log" entries of a trace
LogCalls(t) == Cardinality({i \in DOMAIN t : t[i] = "log"})

Held ==
    UNION {{f.cur} \cup Range(f.failed_logs) : f \in FlushingCalls}

\* the records that went into the buffer and are neither persisted, nor in
\* the buffer, nor held by a running flush
Lost ==
    {r \in enqueued :
        Rows(r) = 0 /\ r \notin Range(log_buffer) /\ r \notin Held}

\* C38: in every reachable state, under any interleaving of
\* log_inference_request and flush_log_buffer, dropped_logs_total equals the
\* number of records that went into the buffer and left it without being
\* persisted; putting failed records back at the end of a flush evicts none
\* uncounted.
C38_DropAccounting == dropped_logs_total = Cardinality(Lost)

\* --------------------------------------------------------- shutdown claim
\* the shutdown steps in the order lifespan makes them
ShutdownSteps == <<"flush", "redis", "database">>

\* C40: at shutdown flush_log_buffer is attempted first, then the key-value
\* store is disconnected, then the log store; a step that fails does not
\* keep the following steps from running.
C40_ShutdownOrder ==
    /\ Len(teardown) <= Len(ShutdownSteps)
    /\ \A i \in DOMAIN teardown : teardown[i].step = ShutdownSteps[i]
    /\ stage = "done" <=> Len(teardown) = Len(ShutdownSteps)
    /\ flushes # EmptyBag => teardown = <<>>
    /\ teardown = <<>> => connections.database = session_factory

\* the shutdown ran to its end although the flush left records behind and
\* both disconnects raised
C40_Witness ==
    /\ stage = "done"
    /\ \A i \in DOMAIN teardown : ~teardown[i].ok
    /\ log_buffer # <<>>
    /\ connections.redis
    /\ connections.database

\* --------------------------------------------------------- liveness claims
\* C36: once every invoked operation succeeds, with time advancing and
\* calls being made, a breaker that is Open or HalfOpen eventually is
\* Closed and stays Closed.
C36_BreakerRecovers ==
    [](cb.state \in {OPEN, HALF_OPEN} => <>[](cb.state = CLOSED))

\* the breaker is Closed again after its probes succeeded
C36_Witness ==
    /\ enabled
    /\ cb.state = CLOSED
    /\ cb.last_failure_time # None
    /\ cb.success_count >= cfg.half_open_attempts
    /\ cb.failure_count = 0

\* the log-store breaker is Open, its timeout has elapsed, the store is
\* healthy again and enough requests are still to come for the probes and
\* one more call
RecoveryDue ==
    /\ enabled
    /\ cb.state = OPEN
    /\ StoreReachable
    /\ SinceFailure >= cfg.timeout_seconds
    /\ next_request + cfg.half_open_attempts <= MaxRecords

\* the latest log_inference_request call wrote its record to the store
\* through a Closed breaker
DirectWrite ==
    /\ cb.state = CLOSED
    /\ log_return.value
    /\ table # <<>>
    /\ table[Len(table)] + 1 = next_request

====
